---- MODULE Spec2Model ----
(***************************************************************************)
(* binarypkg (src/src/main.rs): enumerate the installed packages with eix, *)
(* classify each package's owned files (qlist) by the ELF magic in         *)
(* parallel, query qlop for the build time of the packages that own a      *)
(* binary, print the report sorted by time and the three tiered emerge     *)
(* command lines.                                                          *)
(*                                                                         *)
(* Text (tool output, package identifiers, paths) is a sequence of         *)
(* one-character strings.  Option<T> is a sequence of length 0 or 1.       *)
(* A panic is the result [ok |-> FALSE]; a value v is [ok |-> TRUE,        *)
(* val |-> v].                                                             *)
(***************************************************************************)
EXTENDS Integers, Sequences, FiniteSets, TLC

\* Largest number of package identifiers the inventory tool prints.
MaxPkgs == 2

---------------------------------------------------------------------------
(* Generic helpers of the Rust standard library used by the program.       *)

Some(x) == <<x>>
None == <<>>

Ok(v) == [ok |-> TRUE, val |-> v]
Panic == [ok |-> FALSE]

Range(s) == {s[i] : i \in DOMAIN s}

\* The byte of each character that occurs in a path (String's Ord is bytewise).
Byte(c) ==
  CASE c = "/" -> 47
    [] c = "a" -> 97
    [] c = "b" -> 98
    [] c = "n" -> 110
    [] c = "r" -> 114
    [] c = "s" -> 115
    [] c = "t" -> 116
    [] OTHER -> 0

\* a < b for two strings: bytewise lexicographic, a proper prefix is smaller.
RECURSIVE StrLt(_, _)
StrLt(a, b) ==
  IF b = <<>> THEN FALSE
  ELSE IF a = <<>> THEN TRUE
  ELSE IF Byte(Head(a)) # Byte(Head(b)) THEN Byte(Head(a)) < Byte(Head(b))
  ELSE StrLt(Tail(a), Tail(b))

\* Stable insertion of the path x into the sorted sequence s: after every
\* element that is not greater than x.
RECURSIVE InsertPath(_, _)
InsertPath(x, s) ==
  IF s = <<>> THEN <<x>>
  ELSE IF StrLt(x, Head(s)) THEN <<x>> \o s
  ELSE <<Head(s)>> \o InsertPath(x, Tail(s))

\* str::split_terminator(sep): the pieces between separators; a final empty
\* piece (the text ends with the separator, or is empty) is dropped.
RECURSIVE SplitAcc(_, _, _, _)
SplitAcc(s, sep, cur, acc) ==
  IF s = <<>> THEN (IF cur = <<>> THEN acc ELSE Append(acc, cur))
  ELSE IF Head(s) = sep THEN SplitAcc(Tail(s), sep, <<>>, Append(acc, cur))
  ELSE SplitAcc(Tail(s), sep, Append(cur, Head(s)), acc)

split_terminator(s, sep) == SplitAcc(s, sep, <<>>, <<>>)

IsWhitespace(c) == c \in {" ", "\n", "\t"}

\* str::split_whitespace(): the non-empty runs of non-whitespace characters.
RECURSIVE SplitWsAcc(_, _, _)
SplitWsAcc(s, cur, acc) ==
  IF s = <<>> THEN (IF cur = <<>> THEN acc ELSE Append(acc, cur))
  ELSE IF IsWhitespace(Head(s))
       THEN SplitWsAcc(Tail(s), <<>>, IF cur = <<>> THEN acc ELSE Append(acc, cur))
  ELSE SplitWsAcc(Tail(s), Append(cur, Head(s)), acc)

split_whitespace(s) == SplitWsAcc(s, <<>>, <<>>)

\* [String]::join(sep)
RECURSIVE join(_, _)
join(ss, sep) ==
  IF ss = <<>> THEN <<>>
  ELSE IF Len(ss) = 1 THEN ss[1]
  ELSE ss[1] \o <<sep>> \o join(Tail(ss), sep)

DigitChars == <<"0", "1", "2", "3", "4", "5", "6", "7", "8", "9">>

IsDigit(c) == \E d \in DOMAIN DigitChars : DigitChars[d] = c

DigitVal(c) == (CHOOSE d \in DOMAIN DigitChars : DigitChars[d] = c) - 1

RECURSIVE StripZeros(_)
StripZeros(ds) ==
  IF ds # <<>> /\ Head(ds) = "0" THEN StripZeros(Tail(ds)) ELSE ds

\* The decimal digits of u64::MAX = 2^64 - 1.
U64MaxDigits ==
  <<1, 8, 4, 4, 6, 7, 4, 4, 0, 7, 3, 7, 0, 9, 5, 5, 1, 6, 1, 5>>

RECURSIVE DigitsLeq(_, _)
DigitsLeq(ds, max) ==
  IF ds = <<>> THEN TRUE
  ELSE IF DigitVal(Head(ds)) # Head(max) THEN DigitVal(Head(ds)) < Head(max)
  ELSE DigitsLeq(Tail(ds), Tail(max))

\* Whether the decimal number ds fits 64 bits.
FitsU64(ds) ==
  LET sig == StripZeros(ds)
  IN  \/ Len(sig) < Len(U64MaxDigits)
      \/ Len(sig) = Len(U64MaxDigits) /\ DigitsLeq(sig, U64MaxDigits)

RECURSIVE DecimalValue(_, _)
DecimalValue(ds, acc) ==
  IF ds = <<>> THEN acc ELSE DecimalValue(Tail(ds), acc * 10 + DigitVal(Head(ds)))

\* <u64 as FromStr>::from_str: an optional leading '+', then one or more
\* decimal digits, the value below 2^64.  Empty input, a lone sign, a '-',
\* any other character and overflow are errors (None here).
ParseU64(tok) ==
  LET ds == IF tok # <<>> /\ Head(tok) = "+" THEN Tail(tok) ELSE tok
  IN  IF ds = <<>> \/ (\E i \in DOMAIN ds : ~IsDigit(ds[i])) THEN None
      ELSE IF ~FitsU64(ds) THEN None
      ELSE Some(DecimalValue(ds, 0))

---------------------------------------------------------------------------
(* The environment: exit statuses and output of the three tools, and the   *)
(* files on disk.                                                          *)

\* A finished child process: err is a failure to run it at all
\* (Command::output() is Err), code is ExitStatus::code().
Output(err, code, stdout) == [err |-> err, code |-> code, stdout |-> stdout]

success(output) == output.code = Some(0)

PathB  == <<"/", "b">>
PathAB == <<"/", "a", "b">>
PathT  == <<"/", "t">>
PathS  == <<"/", "s">>
PathN  == <<"/", "n">>
PathR  == <<"/", "r">>

ELF_HEADER == <<127, 69, 76, 70>>

\* The files on disk: whether open() succeeds, whether read fails with an
\* error other than end of file, and the bytes.
FileAt(path) ==
  CASE path = PathB  -> [open |-> TRUE,  ioerr |-> FALSE, bytes |-> <<127, 69, 76, 70, 2>>]
    [] path = PathAB -> [open |-> TRUE,  ioerr |-> FALSE, bytes |-> <<127, 69, 76, 70>>]
    [] path = PathT  -> [open |-> TRUE,  ioerr |-> FALSE, bytes |-> <<127, 69, 76, 71, 70>>]
    [] path = PathS  -> [open |-> TRUE,  ioerr |-> FALSE, bytes |-> <<127, 69, 76>>]
    [] path = PathR  -> [open |-> TRUE,  ioerr |-> TRUE,  bytes |-> <<127, 69, 76, 70>>]
    [] OTHER         -> [open |-> FALSE, ioerr |-> FALSE, bytes |-> <<127, 69, 76, 70>>]

PkgLetters == <<"a", "b", "c", "d">>

\* The i-th package identifier, CATEGORY/NAME.
PkgName(i) == <<"x", "/", PkgLetters[i]>>

\* Text made of the given lines, each ended by a newline.
RECURSIVE Lines(_)
Lines(ls) == IF ls = <<>> THEN <<>> ELSE Head(ls) \o <<"\n">> \o Lines(Tail(ls))

\* What eix may do: fail to start, be killed by a signal, exit 2 (error),
\* exit 1 (no matches), or exit 0 having printed the first n identifiers,
\* the last line with or without its newline.
EixOutputs ==
  {Output(TRUE, None, <<>>), Output(FALSE, None, <<>>),
   Output(FALSE, Some(2), <<>>), Output(FALSE, Some(1), <<>>)}
  \cup {Output(FALSE, Some(0), Lines([i \in 1..n |-> PkgName(i)])) : n \in 0..MaxPkgs}
  \cup {Output(FALSE, Some(0), join([i \in 1..n |-> PkgName(i)], "\n")) : n \in 1..MaxPkgs}

\* What the tools answer for one package.
Profile(qlistCode, files, qlopCode, qlopOut) ==
  [qlist |-> Output(FALSE, Some(qlistCode), Lines(files)),
   qlop  |-> Output(FALSE, Some(qlopCode), qlopOut)]

QlopLine(num) == <<"p", ":", " ">> \o num \o <<"\n">>

\* Packages that differ in the files they own.
FileProfiles ==
  {Profile(0, <<>>, 0, QlopLine(<<"7">>)),
   Profile(0, <<PathS, PathT>>, 0, QlopLine(<<"7">>)),
   Profile(0, <<PathB, PathAB>>, 0, QlopLine(<<"1", "2", "5">>)),
   Profile(0, <<PathB, PathN>>, 0, QlopLine(<<"3", "0">>)),
   Profile(0, <<PathT, PathR>>, 0, QlopLine(<<"3", "0">>)),
   Profile(1, <<>>, 0, QlopLine(<<"3", "0">>)),
   Profile(0, <<PathS, PathAB>>, 1, <<>>)}

\* Packages that differ in what the build-log tool answers.
TimeProfiles ==
  {Profile(0, <<PathT>>, 0, QlopLine(<<"6", "0">>)),
   Profile(0, <<PathB>>, 1, <<>>),
   Profile(0, <<PathB>>, 0, <<>>),
   Profile(0, <<PathB>>, 0, <<"p", ":", "\n">>),
   Profile(0, <<PathB>>, 0, QlopLine(<<"5", "9">>)),
   Profile(0, <<PathB>>, 0, QlopLine(<<"6", "0">>)),
   Profile(0, <<PathB>>, 0, QlopLine(<<"8", "9", "9">>)),
   Profile(0, <<PathB>>, 0, QlopLine(<<"9", "0", "0">>) \o <<"x">>),
   Profile(0, <<PathB>>, 0, QlopLine(<<"1", "m">>)),
   Profile(0, <<PathB>>, 0, QlopLine(<<"+", "7">>)),
   Profile(0, <<PathB>>, 0,
           QlopLine(<<"1", "8", "4", "4", "6", "7", "4", "4", "0", "7",
                      "3", "7", "0", "9", "5", "5", "1", "6", "1", "6">>))}

Flags == [file : BOOLEAN, time : BOOLEAN, rebuild : BOOLEAN]

---------------------------------------------------------------------------
VARIABLES
  opt,      \* Arg: the flags -f, -t, -r
  eixOut,   \* what eix does when it is run
  world,    \* package identifier -> what qlist and qlop do for it
  pc,       \* main's position: "eix", "classify", "report", "done", "aborted"
  names,    \* the Vec<String> eix() returned
  task,     \* the filter_map closure of each enumerated package
  pkgs,     \* the collected (pkg, list, time) tuples
  cursor,   \* the next element of pkgs the report loop prints
  out,      \* the lines printed to stdout
  calls     \* the tools run so far

vars == <<opt, eixOut, world, pc, names, task, pkgs, cursor, out, calls>>

need_time == opt.time \/ opt.rebuild

\* eix() without the test for exit status 1: every failure is a panic.
eix_strict(output) ==
  IF output.err \/ ~success(output) THEN Panic
  ELSE Ok(split_terminator(output.stdout, "\n"))

\* eix(): the identifiers one per line on success, nothing on exit status 1,
\* a panic otherwise.
eix(output) ==
  IF output.err THEN Panic
  ELSE IF ~success(output)
       THEN (IF output.code = Some(1) THEN Ok(<<>>) ELSE Panic)
  ELSE Ok(split_terminator(output.stdout, "\n"))

\* is_elf_file() comparing one byte too few.
is_elf_file_prefix(path) ==
  LET f == FileAt(path)
  IN  IF ~f.open THEN Panic
      ELSE IF f.ioerr THEN Panic
      ELSE IF Len(f.bytes) < 3 THEN Ok(FALSE)
      ELSE Ok(SubSeq(f.bytes, 1, 3) = SubSeq(ELF_HEADER, 1, 3))

\* is_elf_file(): whether the file starts with the ELF magic; a file
\* shorter than 4 bytes does not; failing to open or read it is a panic.
is_elf_file(path) ==
  LET f == FileAt(path)
  IN  IF ~f.open THEN Panic
      ELSE IF f.ioerr THEN Panic
      ELSE IF Len(f.bytes) < 4 THEN Ok(FALSE)
      ELSE Ok(SubSeq(f.bytes, 1, 4) = ELF_HEADER)

\* qlist(): the owned paths one per line, a panic on any failure.
qlist(output) ==
  IF output.err \/ ~success(output) THEN Panic
  ELSE Ok(split_terminator(output.stdout, "\n"))

\* qlop() taking the first token, nth(0), instead of the second.
qlop_first_token(output) ==
  IF output.err \/ ~success(output) THEN Panic
  ELSE LET toks == split_whitespace(output.stdout)
           num  == IF Len(toks) >= 1 THEN toks[1] ELSE <<"0">>
           n    == ParseU64(num)
       IN  IF n = None THEN Panic ELSE Ok(n[1])

\* qlop(): the second whitespace-delimited token as u64, 0 without one.
qlop(output) ==
  IF output.err \/ ~success(output) THEN Panic
  ELSE LET toks == split_whitespace(output.stdout)
           num  == IF Len(toks) >= 2 THEN toks[2] ELSE <<"0">>
           n    == ParseU64(num)
       IN  IF n = None THEN Panic ELSE Ok(n[1])

\* The any-of's skipping applied to list_binary() as well.
ShortCircuitAlways(file, hits) == hits # {}

\* have_binary()'s any(): once a file tested true the files not yet tested
\* are skipped.  list_binary()'s filter() tests every file.
ShortCircuit(file, hits) == ~file /\ hits # {}

\* list.par_sort()
RECURSIVE par_sort(_)
par_sort(list) ==
  IF list = <<>> THEN <<>>
  ELSE InsertPath(list[Len(list)], par_sort(SubSeq(list, 1, Len(list) - 1)))

\* Stable insertion of the tuple x into the sequence s sorted by time:
\* after every element whose time is not greater than x's.
RECURSIVE InsertByTime(_, _)
InsertByTime(x, s) ==
  IF s = <<>> THEN <<x>>
  ELSE IF x[3] < Head(s)[3] THEN <<x>> \o s
  ELSE <<Head(s)>> \o InsertByTime(x, Tail(s))

\* The report left in the order collect() produced.
sort_skipped(ps) == ps

\* pkgs.sort_by_key(|p| p.2)
RECURSIVE sort_by_key(_)
sort_by_key(ps) ==
  IF ps = <<>> THEN <<>>
  ELSE InsertByTime(ps[Len(ps)], sort_by_key(SubSeq(ps, 1, Len(ps) - 1)))

\* print_time(): the format string used (prime and double prime written in
\* ASCII) and the numbers put into it.
print_time(sec) ==
  LET min == sec \div 60
  IN  IF min # 0
      THEN [fmt |-> "{min}'{sec}''", min |-> min, sec |-> sec % 60]
      ELSE [fmt |-> "{sec}s", sec |-> sec]

\* The medium tier starting above 60 s instead of at 60 s.
IsMiddleExclusive(p) == p[3] > 60 /\ p[3] < 15 * 60

IsSmall(p) == p[3] < 60
IsMiddle(p) == p[3] >= 60 /\ p[3] < 15 * 60
IsBig(p) == p[3] >= 15 * 60

PkgOf(p) == p[1]

MapPkg(ps) == [i \in DOMAIN ps |-> PkgOf(ps[i])]

small_pkgs(ps) == MapPkg(SelectSeq(ps, IsSmall))
middle_pkgs(ps) == MapPkg(SelectSeq(ps, IsMiddle))
big_pkgs(ps) == MapPkg(SelectSeq(ps, IsBig))

CmdLine(prefix, ps) == [kind |-> "cmd", prefix |-> prefix, args |-> join(ps, " ")]

\* The rebuild section leaving out the command line of an empty tier.
RebuildLinesNonEmpty(ps) ==
  SelectSeq(<<CmdLine("emerge -av1j16 -l20 --keep-going ", small_pkgs(ps)),
              CmdLine("emerge -av1j2 -l20 --keep-going ", middle_pkgs(ps)),
              CmdLine("emerge -av1 --keep-going ", big_pkgs(ps))>>,
            LAMBDA l : l.args # <<>>)

\* The three println! of the rebuild section.
RebuildLines(ps) ==
  <<CmdLine("emerge -av1j16 -l20 --keep-going ", small_pkgs(ps)),
    CmdLine("emerge -av1j2 -l20 --keep-going ", middle_pkgs(ps)),
    CmdLine("emerge -av1 --keep-going ", big_pkgs(ps))>>

\* The lines the report loop prints for one element of pkgs.
ReportLines(p) ==
  <<IF need_time
    THEN [kind |-> "pkgtime", pkg |-> p[1], time |-> print_time(p[3])]
    ELSE [kind |-> "pkg", pkg |-> p[1]]>>
  \o (IF opt.file THEN [i \in DOMAIN p[2] |-> [kind |-> "file", path |-> p[2][i]]]
      ELSE <<>>)

\* The early return taken only when -f is not given either.
EarlyReturnUnlessFile == ~opt.time /\ ~opt.rebuild /\ ~opt.file

\* `if !opt.time && !opt.rebuild { return; }`
EarlyReturn == ~opt.time /\ ~opt.rebuild

Idle == [st |-> "todo", files |-> <<>>, tested |-> {}, hits |-> {},
         list |-> <<>>, time |-> 0]

Finished(t) == t.st \in {"some", "none"}

\* The report started as soon as one closure returned.
AnyFinished == \E i \in DOMAIN task : Finished(task[i])

\* The join at the end of the parallel filter_map: every closure returned.
Joined == \A i \in DOMAIN task : Finished(task[i])

Panicked == \E i \in DOMAIN task : task[i].st = "panic"

InitWith(Profiles) ==
  /\ opt \in Flags
  /\ eixOut \in EixOutputs
  /\ world \in [Range(split_terminator(eixOut.stdout, "\n")) -> Profiles]
  /\ pc = "eix"
  /\ names = <<>>
  /\ task = <<>>
  /\ pkgs = <<>>
  /\ cursor = 1
  /\ out = <<>>
  /\ calls = {}

Init == InitWith(FileProfiles)

InitTime == InitWith(TimeProfiles)

\* let pkgs = eix(opt.atom);
Eix ==
  /\ pc = "eix"
  /\ LET r == eix(eixOut)
     IN  /\ calls' = calls \cup {<<"eix">>}
         /\ IF r.ok
            THEN /\ names' = r.val
                 /\ task' = [i \in DOMAIN r.val |-> Idle]
                 /\ pc' = "classify"
            ELSE /\ pc' = "aborted"
                 /\ UNCHANGED <<names, task>>
  /\ UNCHANGED <<opt, eixOut, world, pkgs, cursor, out>>

\* The closure of package i runs qlist.
Qlist(i) ==
  /\ pc = "classify"
  /\ task[i].st = "todo"
  /\ LET r == qlist(world[names[i]].qlist)
     IN  /\ calls' = calls \cup {<<"qlist", names[i]>>}
         /\ task' = [task EXCEPT ![i] =
                       IF r.ok THEN [@ EXCEPT !.st = "listed", !.files = r.val]
                       ELSE [Idle EXCEPT !.st = "panic"]]
  /\ UNCHANGED <<opt, eixOut, world, pc, names, pkgs, cursor, out>>

\* One task of the parallel iterator over package i's files tests file j.
TestFile(i, j) ==
  /\ pc = "classify"
  /\ task[i].st = "listed"
  /\ j \in DOMAIN task[i].files
  /\ j \notin task[i].tested
  /\ ~ShortCircuit(opt.file, task[i].hits)
  /\ LET r == is_elf_file(task[i].files[j])
     IN  task' = [task EXCEPT ![i] =
                    IF ~r.ok THEN [Idle EXCEPT !.st = "panic"]
                    ELSE [@ EXCEPT !.tested = @ \cup {j},
                                   !.hits = IF r.val THEN @ \cup {j} ELSE @]]
  /\ UNCHANGED <<opt, eixOut, world, pc, names, pkgs, cursor, out, calls>>

\* The rest of package i's closure once its files are classified: the
\* binaries in qlist's order (with -f), sorted, and the build time.
FinishPkg(i) ==
  /\ pc = "classify"
  /\ task[i].st = "listed"
  /\ \/ task[i].tested = DOMAIN task[i].files
     \/ ShortCircuit(opt.file, task[i].hits)
  /\ LET t    == task[i]
         list == IF opt.file
                 THEN [k \in 1..Cardinality(t.hits) |->
                         t.files[CHOOSE j \in t.hits :
                                   Cardinality({h \in t.hits : h < j}) = k - 1]]
                 ELSE <<>>
         have == IF opt.file THEN list # <<>> ELSE t.hits # {}
         r    == IF need_time THEN qlop(world[names[i]].qlop) ELSE Ok(0)
     IN  IF ~have
         THEN /\ task' = [task EXCEPT ![i] = [Idle EXCEPT !.st = "none"]]
              /\ calls' = calls
         ELSE /\ calls' = IF need_time THEN calls \cup {<<"qlop", names[i]>>}
                          ELSE calls
              /\ task' = [task EXCEPT ![i] =
                            IF r.ok
                            THEN [Idle EXCEPT !.st = "some",
                                              !.list = par_sort(list),
                                              !.time = r.val]
                            ELSE [Idle EXCEPT !.st = "panic"]]
  /\ UNCHANGED <<opt, eixOut, world, pc, names, pkgs, cursor, out>>

\* A panic of a closure unwinds through the parallel iterator into main.
Abort ==
  /\ pc = "classify"
  /\ Panicked
  /\ pc' = "aborted"
  /\ UNCHANGED <<opt, eixOut, world, names, task, pkgs, cursor, out, calls>>

RECURSIVE Collected(_)
Collected(i) ==
  IF i = 0 THEN <<>>
  ELSE Collected(i - 1)
       \o (IF task[i].st = "some"
           THEN <<<<names[i], task[i].list, task[i].time>>>> ELSE <<>>)

\* .collect() of the closures' Some results in the order of the input, the
\* return without -t and -r, the sort by time.
Collect ==
  /\ pc = "classify"
  /\ Joined
  /\ LET ps == Collected(Len(names))
     IN  IF EarlyReturn
         THEN pkgs' = ps /\ pc' = "done"
         ELSE /\ pkgs' = IF need_time THEN sort_by_key(ps) ELSE ps
              /\ pc' = "report"
  /\ UNCHANGED <<opt, eixOut, world, names, task, cursor, out, calls>>

\* One iteration of `for (pkg, list, time) in &pkgs`.
ReportNext ==
  /\ pc = "report"
  /\ cursor <= Len(pkgs)
  /\ out' = out \o ReportLines(pkgs[cursor])
  /\ cursor' = cursor + 1
  /\ UNCHANGED <<opt, eixOut, world, pc, names, task, pkgs, calls>>

\* After the loop: return without -r, else the three command lines.
Rebuild ==
  /\ pc = "report"
  /\ cursor > Len(pkgs)
  /\ out' = IF ~opt.rebuild THEN out ELSE out \o RebuildLines(pkgs)
  /\ pc' = "done"
  /\ UNCHANGED <<opt, eixOut, world, names, task, pkgs, cursor, calls>>

Next ==
  \/ Eix
  \/ \E i \in DOMAIN task : Qlist(i)
  \/ \E i \in DOMAIN task : \E j \in DOMAIN task[i].files : TestFile(i, j)
  \/ \E i \in DOMAIN task : FinishPkg(i)
  \/ Abort
  \/ Collect
  \/ ReportNext
  \/ Rebuild

Spec == Init /\ [][Next]_vars

SpecTime == InitTime /\ [][Next]_vars

---------------------------------------------------------------------------
(* What the claims speak of, stated on the tools' answers and the files on *)
(* disk rather than on the program's intermediate results.                 *)

RECURSIVE Concat(_)
Concat(ss) == IF ss = <<>> THEN <<>> ELSE Head(ss) \o Concat(Tail(ss))

\* The paths qlist prints for p.
OwnedFiles(p) == split_terminator(world[p].qlist.stdout, "\n")

\* The file's content starts with 0x7F 'E' 'L' 'F'.
StartsWithElf(path) ==
  LET b == FileAt(path).bytes
  IN  Len(b) >= 4 /\ b[1] = 127 /\ b[2] = 69 /\ b[3] = 76 /\ b[4] = 70

\* The file cannot be opened, or reading it fails.
Unreadable(path) == ~FileAt(path).open \/ FileAt(path).ioerr

ReadableElf(path) == ~Unreadable(path) /\ StartsWithElf(path)

OwnsBinary(p) == \E f \in Range(OwnedFiles(p)) : ReadableElf(f)

OwnsUnreadable(p) == \E f \in Range(OwnedFiles(p)) : Unreadable(f)

EixFatal == eixOut.err \/ eixOut.code \notin {Some(0), Some(1)}

QlistFatal(p) == world[p].qlist.err \/ world[p].qlist.code # Some(0)

QlopTokens(p) == split_whitespace(world[p].qlop.stdout)

\* The build-log tool exits non-zero, or its second token is no u64.
QlopFatal(p) ==
  \/ world[p].qlop.err
  \/ world[p].qlop.code # Some(0)
  \/ Len(QlopTokens(p)) >= 2 /\ ParseU64(QlopTokens(p)[2]) = None

\* Some tool or file fails when every owned file of every package is read.
FatalInput ==
  \/ EixFatal
  \/ \E p \in DOMAIN world :
       \/ QlistFatal(p)
       \/ OwnsUnreadable(p)
       \/ need_time /\ OwnsBinary(p) /\ QlopFatal(p)

Completed == pc \in {"report", "done"}

IsReport(l) == l.kind \in {"pkg", "pkgtime"}
IsFile(l) == l.kind = "file"
IsCmd(l) == l.kind = "cmd"

\* The seconds a printed duration stands for.
Seconds(t) == IF t.fmt = "{sec}s" THEN t.sec ELSE t.min * 60 + t.sec

ReportOut == SelectSeq(out, IsReport)
CmdOut == SelectSeq(out, IsCmd)

\* The package identifiers on a command line.
Args(l) == split_terminator(l.args, " ")

FastPrefix == "emerge -av1j16 -l20 --keep-going "
MediumPrefix == "emerge -av1j2 -l20 --keep-going "
SlowPrefix == "emerge -av1 --keep-going "

\* How many times p is an argument of a printed command line with the prefix.
Occurs(p, prefix) ==
  Cardinality(UNION {{<<k, a>> : a \in {b \in DOMAIN Args(CmdOut[k]) :
                                          Args(CmdOut[k])[b] = p}} :
                     k \in {j \in DOMAIN CmdOut : CmdOut[j].prefix = prefix}})

RecordedPkgs == {pkgs[k][1] : k \in DOMAIN pkgs}

---------------------------------------------------------------------------
\* C1: in a run that got past classification, a package has an audit record
\* exactly if it was enumerated and one of its owned files starts with the
\* ELF magic, whatever the flags; a package without owned files has none.
C1_Membership ==
  Completed =>
    /\ RecordedPkgs \subseteq Range(names)
    /\ \A p \in Range(names) :
         (p \in RecordedPkgs) <=> (\E f \in Range(OwnedFiles(p)) : StartsWithElf(f))
    /\ \A p \in Range(names) : OwnedFiles(p) = <<>> => p \notin RecordedPkgs

\* A finished run that kept one of two enumerated packages and dropped the
\* other, which owns files, none of them a binary.
C1_Witness ==
  /\ pc = "done"
  /\ Len(names) = 2
  /\ Len(pkgs) = 1
  /\ \E p \in Range(names) : p \notin RecordedPkgs /\ OwnedFiles(p) # <<>>

\* C2: with -r, every reported package is an argument of exactly one command
\* line: the fast one iff d < 60, the medium one iff 60 <= d < 900, the slow
\* one iff d >= 900; no other package is an argument of a command line.
C2_Tiering ==
  (pc = "done" /\ opt.rebuild) =>
    /\ \A k \in DOMAIN ReportOut :
         LET p == ReportOut[k].pkg
             d == Seconds(ReportOut[k].time)
         IN  /\ d >= 0
             /\ Occurs(p, FastPrefix) = (IF d < 60 THEN 1 ELSE 0)
             /\ Occurs(p, MediumPrefix) = (IF 60 <= d /\ d < 900 THEN 1 ELSE 0)
             /\ Occurs(p, SlowPrefix) = (IF d >= 900 THEN 1 ELSE 0)
    /\ \A k \in DOMAIN CmdOut : \A a \in DOMAIN Args(CmdOut[k]) :
         \E r \in DOMAIN ReportOut : ReportOut[r].pkg = Args(CmdOut[k])[a]

\* A finished -r run that reported one package at 899 s and one at 900 s.
C2_Witness ==
  /\ pc = "done"
  /\ opt.rebuild
  /\ \E k \in DOMAIN ReportOut : Seconds(ReportOut[k].time) = 899
  /\ \E k \in DOMAIN ReportOut : Seconds(ReportOut[k].time) = 900

\* C3: with -t or -r, of any two printed report lines the earlier one never
\* shows a larger duration than the later one.
C3_SortedByTime ==
  need_time =>
    \A i, j \in DOMAIN ReportOut :
      i < j => Seconds(ReportOut[i].time) <= Seconds(ReportOut[j].time)

\* A finished -t run whose first report line is the package enumerated second.
C3_Witness ==
  /\ pc = "done"
  /\ opt.time
  /\ Len(ReportOut) = 2
  /\ ReportOut[1].pkg = names[2]
  /\ Seconds(ReportOut[1].time) < Seconds(ReportOut[2].time)

\* The enumerated packages that own a binary, in enumeration order.
Qualifying == SelectSeq(names, OwnsBinary)

ElfFilesSorted(p) == par_sort(SelectSeq(OwnedFiles(p), StartsWithElf))

\* A package's report line and its binaries' lines, sorted by path.
Listing(p) ==
  <<<<"report", p>>>> \o [i \in DOMAIN ElfFilesSorted(p) |-> <<"file", ElfFilesSorted(p)[i]>>]

PrintedListing ==
  LET ls == SelectSeq(out, LAMBDA l : ~IsCmd(l))
  IN  [i \in DOMAIN ls |->
         IF IsReport(ls[i]) THEN <<"report", ls[i].pkg>> ELSE <<"file", ls[i].path>>]

\* C4: with -f and without -t, a completed run has printed the qualifying
\* packages in enumeration order, each followed by its binaries sorted by path.
C4_ListingInEnumerationOrder ==
  (pc = "done" /\ opt.file /\ ~opt.time) =>
    PrintedListing = Concat([k \in DOMAIN Qualifying |-> Listing(Qualifying[k])])

ReportPos(p) == CHOOSE k \in DOMAIN ReportOut : ReportOut[k].pkg = p

\* C6: with -r, a completed run has printed, after every report and file
\* line, exactly the fast, the medium and the slow command line in this
\* order, an empty tier's line included, and the arguments of each line are
\* in the order of the report; before the end no command line is printed.
C6_ThreeCommandLines ==
  opt.rebuild =>
    /\ pc # "done" => CmdOut = <<>>
    /\ pc = "done" =>
         /\ Len(out) >= 3
         /\ \A k \in 1..Len(out) - 3 : ~IsCmd(out[k])
         /\ Len(CmdOut) = 3
         /\ <<CmdOut[1].prefix, CmdOut[2].prefix, CmdOut[3].prefix>>
              = <<FastPrefix, MediumPrefix, SlowPrefix>>
         /\ SubSeq(out, Len(out) - 2, Len(out)) = CmdOut
         /\ \A k \in 1..3 : \A a, b \in DOMAIN Args(CmdOut[k]) :
              a < b => ReportPos(Args(CmdOut[k])[a]) < ReportPos(Args(CmdOut[k])[b])

\* A finished -r run with two packages on one command line and the other two
\* command lines empty.
C6_Witness ==
  /\ pc = "done"
  /\ opt.rebuild
  /\ \E k \in 1..3 : Len(Args(CmdOut[k])) = 2
  /\ Cardinality({k \in 1..3 : CmdOut[k].args = <<>>}) = 2

\* C7: when eix exits with status 1 the enumeration is empty and the run goes
\* on over zero packages without running another tool; when eix fails in any
\* other way the run aborts, having run no other tool and printed nothing;
\* when eix succeeds the enumeration is its output's lines in order.
C7_EnumeratorErrors ==
  /\ (~eixOut.err /\ eixOut.code = Some(1) /\ pc # "eix") =>
       /\ names = <<>> /\ pkgs = <<>>
       /\ pc # "aborted"
       /\ calls = {<<"eix">>}
       /\ \A k \in DOMAIN out : IsCmd(out[k]) /\ out[k].args = <<>>
       /\ pc = "done" => Len(out) = (IF opt.rebuild THEN 3 ELSE 0)
  /\ EixFatal =>
       /\ pc \in {"eix", "aborted"}
       /\ calls \subseteq {<<"eix">>}
       /\ out = <<>>
  /\ (~eixOut.err /\ eixOut.code = Some(0) /\ pc # "eix") =>
       /\ eixOut.stdout \in {join(names, "\n"), Lines(names)}
       /\ \A k \in DOMAIN names : names[k] # <<>> /\ "\n" \notin Range(names[k])

\* A finished -r run after eix exited with status 1: three empty command lines.
C7_Witness ==
  /\ eixOut.code = Some(1)
  /\ pc = "done"
  /\ opt.rebuild
  /\ Len(out) = 3

\* C8: a recorded package's time is 0 when qlop's output has no second token
\* (printed as 0s, placed on the fast line) and the value of the second token
\* otherwise; a run does not get past classification when qlop fails or its
\* second token is no number for a package with a binary, and aborts for no
\* other reason than a failing tool or file; qlop is run only with -t or -r
\* and only for packages that own a binary.
C8_BuildTimeOracle ==
  /\ (need_time /\ Completed) =>
       \A k \in DOMAIN pkgs :
         LET p == pkgs[k][1]
             toks == QlopTokens(p)
         IN  /\ ~QlopFatal(p)
             /\ <<"qlop", p>> \in calls
             /\ pkgs[k][3] = (IF Len(toks) < 2 THEN 0 ELSE ParseU64(toks[2])[1])
  /\ (opt.rebuild /\ pc = "done") =>
       \A k \in DOMAIN ReportOut :
         Len(QlopTokens(ReportOut[k].pkg)) < 2 =>
           /\ ReportOut[k].time = [fmt |-> "{sec}s", sec |-> 0]
           /\ Occurs(ReportOut[k].pkg, FastPrefix) = 1
  /\ (need_time /\ \E p \in DOMAIN world : OwnsBinary(p) /\ QlopFatal(p)) => ~Completed
  /\ pc = "aborted" => FatalInput
  /\ \A p \in DOMAIN world : <<"qlop", p>> \in calls => need_time /\ OwnsBinary(p)
  /\ ~need_time => \A k \in DOMAIN pkgs : pkgs[k][3] = 0

\* A finished -r run with a package whose qlop output has no second token,
\* and one whose second token is 899.
C8_Witness ==
  /\ pc = "done"
  /\ opt.rebuild
  /\ \E k \in DOMAIN pkgs : Len(QlopTokens(pkgs[k][1])) = 1 /\ pkgs[k][3] = 0
  /\ \E k \in DOMAIN pkgs : pkgs[k][3] = 899

\* C9: a line is printed only when every package's closure has returned;
\* once a line is printed no tool runs, no file is read and the run does not
\* abort; an aborted run has printed nothing.
C9_NoPartialOutput ==
  [][/\ out' # out => (\A i \in DOMAIN task : task[i].st \in {"some", "none"})
     /\ (out # <<>> \/ out' # <<>>) =>
          /\ calls' = calls
          /\ task' = task
          /\ pc' # "aborted"
     /\ pc' = "aborted" => out' = <<>>]_vars

\* A run in the middle of its report: one line printed, one to go.
C9_Witness ==
  /\ pc = "report"
  /\ out # <<>>
  /\ cursor <= Len(pkgs)

\* The records a run builds when every file of every package is read.
RefRecord(p) ==
  <<p,
    IF opt.file THEN ElfFilesSorted(p) ELSE <<>>,
    IF need_time THEN qlop(world[p].qlop).val ELSE 0>>

RefPkgs ==
  LET ps == [k \in DOMAIN Qualifying |-> RefRecord(Qualifying[k])]
  IN  IF need_time THEN sort_by_key(ps) ELSE ps

\* The lines such a run prints.
RefOut ==
  IF EarlyReturn THEN <<>>
  ELSE Concat([k \in DOMAIN RefPkgs |-> ReportLines(RefPkgs[k])])
       \o (IF opt.rebuild THEN RebuildLines(RefPkgs) ELSE <<>>)

\* The outcome is that of reading every file: the run aborts exactly if some
\* tool or file fails, and otherwise prints the reference lines.
OutcomeIsReference ==
  /\ (pc = "aborted") <=> FatalInput
  /\ pc = "done" => out = RefOut

\* C10 as stated: whatever the schedule, an ended run has the one outcome its
\* flags, tool outputs and files determine, the any-of of have_binary
\* aborting on an unreadable file exactly when list_binary does.
C10_ScheduleIndependent ==
  pc \in {"done", "aborted"} => OutcomeIsReference

\* No enumerated package owns both a binary and a file that cannot be read.
NoBinaryBesideUnreadable ==
  \A p \in DOMAIN world : ~(OwnsBinary(p) /\ OwnsUnreadable(p))

\* C10 amended: the outcome is the same under every schedule when -f is given
\* or no package owns both a binary and an unreadable file.
C10_ScheduleIndependentAmended ==
  (pc \in {"done", "aborted"} /\ (opt.file \/ NoBinaryBesideUnreadable)) =>
    OutcomeIsReference

\* A run without -f that aborted on a package owning an unreadable file and
\* no binary, while another package's closure had already returned.
C10_Witness ==
  /\ pc = "aborted"
  /\ ~opt.file
  /\ NoBinaryBesideUnreadable
  /\ \E p \in DOMAIN world : OwnsUnreadable(p)
  /\ \E i \in DOMAIN task : task[i].st = "some"

====
